---- MODULE Spec2Model ----
(***************************************************************************)
(* Model of the League of Legends tracking bot (bot.py, persistence.py).   *)
(*                                                                         *)
(* State: the global list `players`, the dict `active_games`, the date     *)
(* `last_daily_date`, the position of the check_games loop, and the object *)
(* uploaded by persistence.save_data.  Python dicts are functions whose    *)
(* DOMAIN is the set of keys present.  Every outbound HTTP call is an      *)
(* input drawn from a small set of responses (a raised exception, an error *)
(* body, a well-formed body).                                              *)
(***************************************************************************)
EXTENDS Integers, Sequences, FiniteSets, TLC

VARIABLES
    players,          \* bot.py:77   list of account dicts
    active_games,     \* bot.py:78   dict keyed by (puuid, match_id), in insertion order
    last_daily_date,  \* bot.py:38   0 stands for None
    pc,               \* check_games: 0 = no sweep running, i = next index of `for info in players`
    driver,           \* the tasks.loop of check_games: "idle", "running" or "stopped"
    yielded,          \* the running sweep is suspended at an await (a command may run)
    reply,            \* outcome of the latest command (message handed to ctx.send, or the exception)
    board,            \* fields of the embed sent by the latest leaderboard command
    stored,           \* persistence.py: the players list last uploaded by save_data
    starts,           \* observer: start notifications delivered for `watch`
    ends,             \* observer: end notifications delivered for `watch`
    clean,            \* observer: no record of `watch` dropped without an end, no start lost
    tick,             \* observer: the latest iteration of the check_games loop for `watch`
    scen,             \* observer: progress of `watch` through the four-sample scenario
    scenS,            \* observer: the session of that scenario
    skipped,          \* observer: identities an aborted sweep never reached
    watch,            \* observer: the identity whose notifications are observed
    lpHist,           \* observer: solo points returned by the successive refreshes
    obs,              \* observer: what the latest iteration of the loop did for `watch`
    gap,              \* observer: the sessions of `watch` recorded when the process restarted
    daily             \* observer: the latest runs of daily_summary_scheduler

vars == <<players, active_games, last_daily_date, pc, driver, yielded, reply, board, stored,
          starts, ends, clean, tick, scen, scenS, skipped, watch, lpHist, obs, gap, daily>>

(***************************************************************************)
(* Bounds                                                                  *)
(***************************************************************************)
NumIdentities == 2
NumGames == 2
MaxNotif == 2
MaxRefresh == 3
MaxBoard == 4
MaxList == 3

AllPuuids == <<"A", "B", "C", "D", "E">>
PUUIDS == {AllPuuids[i] : i \in 1..NumIdentities}
GameIds == 1..NumGames

(***************************************************************************)
(* Python dict helpers                                                     *)
(***************************************************************************)
DictGet(d, k, default) == IF k \in DOMAIN d THEN d[k] ELSE default

DictSet(d, k, v) == [x \in DOMAIN d \cup {k} |-> IF x = k THEN v ELSE d[x]]

Range(s) == {s[i] : i \in DOMAIN s}

(***************************************************************************)
(* Static tables                                                           *)
(***************************************************************************)
rank_order ==
    [IRON |-> 1, BRONZE |-> 2, SILVER |-> 3, GOLD |-> 4, PLATINUM |-> 5, DIAMOND |-> 6,
     MASTER |-> 7, GRANDMASTER |-> 8, CHALLENGER |-> 9, UNRANKED |-> 99]

division_order == ("IV" :> 4) @@ ("III" :> 3) @@ ("II" :> 2) @@ ("I" :> 1) @@ ("" :> 99)

\* gamemode of check_games at the end of a game (bot.py:287-292)
GamemodeOfInt(queue) ==
    CASE queue = 420 -> "Classe Solo/Duo"
      [] queue = 440 -> "Classe Flex"
      [] queue = 400 -> "Normal Draft"
      [] queue = 3100 -> "Custom"
      [] OTHER -> "Queue " \o ToString(queue)

(***************************************************************************)
(* Responses of the league (standing) endpoint                             *)
(*   kind "raise": riot_access or .json() raises                           *)
(*   kind "error": a JSON object (rate limit, server error), not a list    *)
(*   kind "list" : the list of entries                                     *)
(***************************************************************************)
Entry(q, t, r, lp, w, l) ==
    [queueType |-> q, tier |-> t, rank |-> r, leaguePoints |-> lp, wins |-> w, losses |-> l]

LeagueRaise == [kind |-> "raise", entries |-> <<>>]
LeagueError == [kind |-> "error", entries |-> <<>>]
LeagueList(es) == [kind |-> "list", entries |-> es]

Solo40 == Entry("RANKED_SOLO_5x5", "GOLD", "II", 40, 5, 3)
Solo25 == Entry("RANKED_SOLO_5x5", "SILVER", "I", 25, 5, 4)
Solo60 == Entry("RANKED_SOLO_5x5", "GOLD", "II", 60, 6, 4)
Flex10 == Entry("RANKED_FLEX_SR", "GOLD", "IV", 10, 1, 1)

\* what the endpoint answers in the sweep model
LeagueResponses ==
    {LeagueRaise, LeagueError, LeagueList(<<>>), LeagueList(<<Solo40>>),
     LeagueList(<<Flex10, Solo25>>)}

(***************************************************************************)
(* update_lp                                                               *)
(***************************************************************************)
DefaultStanding == [tier |-> "UNRANKED", rank |-> "", lp |-> 0, daily_lp |-> 0]

\* index of the last account with this puuid, 0 when there is none
FindAccountLast(plist, puuid) ==
    IF \E i \in 1..Len(plist) : plist[i].puuid = puuid
    THEN CHOOSE i \in 1..Len(plist) :
            /\ plist[i].puuid = puuid
            /\ \A j \in (i + 1)..Len(plist) : plist[j].puuid # puuid
    ELSE 0

\* index of the first account with this puuid, 0 when there is none
FindAccount(plist, puuid) ==
    IF \E i \in 1..Len(plist) : plist[i].puuid = puuid
    THEN CHOOSE i \in 1..Len(plist) :
            /\ plist[i].puuid = puuid
            /\ \A j \in 1..(i - 1) : plist[j].puuid # puuid
    ELSE 0

\* bot.py:411-412: both standings are overwritten before the response is read
StandingsBeforeRefresh(acc) ==
    DictSet(DictSet(acc, "solo", DefaultStanding), "flex", DefaultStanding)

\* bot.py:426-448, one entry of the response applied to the account
ApplyEntry(acc, entry) ==
    LET key == CASE entry.queueType = "RANKED_SOLO_5x5" -> "solo"
                 [] entry.queueType = "RANKED_FLEX_SR" -> "flex"
                 [] OTHER -> "none"
    IN IF key = "none" THEN acc
       ELSE LET new_lp == entry.leaguePoints
                old_lp == DictGet(acc[key], "lp", new_lp)
                diff == new_lp - old_lp
            IN DictSet(acc, key,
                   [tier |-> entry.tier, rank |-> entry.rank, lp |-> new_lp,
                    daily_lp |-> DictGet(acc[key], "daily_lp", 0) + diff,
                    wins |-> entry.wins, losses |-> entry.losses])

RECURSIVE ApplyEntries(_, _)
ApplyEntries(acc, entries) ==
    IF entries = <<>> THEN acc
    ELSE ApplyEntries(ApplyEntry(acc, Head(entries)), Tail(entries))

\* update_lp with the test `if not data` (bot.py:414) ahead of the two assignments of
\* bot.py:411-412
update_lp_EmptyFirst(plist, puuid, resp) ==
    LET i == FindAccount(plist, puuid) IN
    IF resp.kind = "raise" THEN [players |-> plist, raised |-> TRUE]
    ELSE IF i = 0 \/ (resp.kind = "list" /\ resp.entries = <<>>)
    THEN [players |-> plist, raised |-> FALSE]
    ELSE LET init == StandingsBeforeRefresh(plist[i]) IN
         IF resp.kind = "error"
         THEN [players |-> [plist EXCEPT ![i] = init], raised |-> TRUE]
         ELSE [players |-> [plist EXCEPT ![i] = ApplyEntries(init, resp.entries)],
               raised |-> FALSE]

\* update_lp(pseudo, puuid) with the endpoint answering `resp`:
\* the new players list and whether the call raised
update_lp(plist, puuid, resp) ==
    LET i == FindAccount(plist, puuid) IN
    IF resp.kind = "raise" THEN [players |-> plist, raised |-> TRUE]
    ELSE IF i = 0 THEN [players |-> plist, raised |-> FALSE]
    ELSE LET init == StandingsBeforeRefresh(plist[i]) IN
         IF resp.kind = "error"
         THEN \* `for entry in data` walks the keys of the object: entry["queueType"] raises
              [players |-> [plist EXCEPT ![i] = init], raised |-> TRUE]
         ELSE [players |-> [plist EXCEPT ![i] = ApplyEntries(init, resp.entries)],
               raised |-> FALSE]

(***************************************************************************)
(* register                                                                *)
(***************************************************************************)
\* "Name#Tag" inputs, as character sequences: well-formed ones, one the directory does
\* not know, one without "#", one with two
PseudoOf(i) == <<<<"a", "b", "c", "d", "e">>[i], "#", "1">>

GoodPseudos == {PseudoOf(i) : i \in 1..NumIdentities}

Pseudos == GoodPseudos \cup {<<"z", "#", "1">>, <<"a", "1">>, <<"a", "#", "1", "#">>}

\* pseudo.split("#")
RECURSIVE Split(_)
Split(s) ==
    IF s = <<>> THEN << <<>> >>
    ELSE LET rest == Split(Tail(s)) IN
         IF Head(s) = "#" THEN << <<>> >> \o rest
         ELSE << <<Head(s)>> \o Head(rest) >> \o Tail(rest)

\* the account endpoint's directory: the puuid behind Name/Tag, "" when there is none
AccountDirectory(name, tag) ==
    IF \E i \in 1..NumIdentities : <<name, tag>> = Split(PseudoOf(i))
    THEN AllPuuids[CHOOSE i \in 1..NumIdentities : <<name, tag>> = Split(PseudoOf(i))]
    ELSE ""

\* bot.py:211 with the duplicate test left out
AlreadyRegisteredNever(plist, puuid) == FALSE

\* bot.py:211
AlreadyRegistered(plist, puuid) == \E i \in 1..Len(plist) : plist[i].puuid = puuid

\* a command runs when the event loop is free: no sweep is running, or the sweep is
\* suspended at an await
CommandMayRun == pc = 0 \/ yielded

\* register(ctx, pseudo), with the account endpoint raising (net = "raise") or answering
\* from its directory (net = "ok"), and the league endpoint answering lg
register(pseudo, net, lg) ==
    /\ CommandMayRun
    /\ UNCHANGED <<active_games, last_daily_date, pc, driver, yielded, board, stored, watch,
                   starts, ends, clean, tick, scen, scenS, skipped, lpHist, obs, gap, daily>>
    /\ IF "#" \notin Range(pseudo)
       THEN /\ reply' = "Format invalide : Nom#TAG"
            /\ UNCHANGED players
       ELSE IF Len(Split(pseudo)) # 2
       THEN /\ reply' = "ValueError"
            /\ UNCHANGED players
       ELSE IF net = "raise"
       THEN /\ reply' = "RequestException"
            /\ UNCHANGED players
       ELSE LET res == AccountDirectory(Split(pseudo)[1], Split(pseudo)[2]) IN
            IF res = ""
            THEN /\ reply' = "Riot ID invalide."
                 /\ UNCHANGED players
            ELSE IF AlreadyRegistered(players, res)
            THEN /\ reply' = "deja enregistre"
                 /\ UNCHANGED players
            ELSE LET account == [puuid |-> res, name |-> pseudo]
                     upd == update_lp(Append(players, account), res, lg)
                 IN /\ players' = upd.players
                    /\ reply' = IF upd.raised THEN "update_lp raised"
                                ELSE "enregistre avec succes"

\* the register commands of the sweep model: well-formed input, endpoints answering
Register == \E pseudo \in GoodPseudos : register(pseudo, "ok", LeagueList(<<Solo40>>))

\* the register commands of the registry model: any input, any answer
RegisterAny ==
    \E pseudo \in Pseudos, net \in {"raise", "ok"}, lg \in LeagueResponses :
        register(pseudo, net, lg)

(***************************************************************************)
(* check_games: the Sampler (spectator endpoint)                           *)
(*   status 0  : riot_access raises, or the body is not the expected JSON  *)
(*   status 200: an active game, with its gameId and gameQueueConfigId     *)
(*   other     : no active game (404), or an error status (429)            *)
(***************************************************************************)
StatusOk == 200

SamplerQueues == {420, 400}

SamplerResponses ==
    {[status |-> 0, gameId |-> 0, queue |-> 0]}
    \cup {[status |-> s, gameId |-> 0, queue |-> 0] : s \in {404, 429}}
    \cup {[status |-> StatusOk, gameId |-> g, queue |-> q] : g \in GameIds, q \in SamplerQueues}

Keys(ag) == Range(ag)

\* the match ids recorded for this puuid
GamesOf(ag, puuid) == {k[2] : k \in {x \in Keys(ag) : x[1] = puuid}}

\* bot.py:261 with the test always true
IsNewGameAlways(ag, puuid, match_id) == TRUE

\* bot.py:261
IsNewGame(ag, puuid, match_id) == <<puuid, match_id>> \notin Keys(ag)

\* del active_games[(p, m)]
DelGame(ag, key) == SelectSeq(ag, LAMBDA k : k # key)

\* bot.py:267-268 with the test `p == puuid` left out
KeysOfPlayerAll(ag, puuid) == ag

\* bot.py:267-268: the keys of list(active_games.keys()) that belong to puuid, in order
KeysOfPlayer(ag, puuid) == SelectSeq(ag, LAMBDA k : k[1] = puuid)

(***************************************************************************)
(* check_games: the end of a game (bot.py:269-308) and send_game_end       *)
(***************************************************************************)
MatchQueues == {420, 440, 400}

\* what the match-list and match-detail endpoints can answer for one record:
\*   "listRaise"  : the match list call raises or answers an error object
\*   "empty"      : the match list is []
\*   "detailRaise": the match detail call raises or has no "info"
\*   "absent"     : the detail's participants do not hold the puuid
\*   "found"      : the participant is found; last_match[0] is the match of the record's
\*                  session (`same`) or an earlier match, the match has queue `queue`, the
\*                  league endpoint answers `ranks` and channel.send succeeds iff `sent`
Resolutions ==
    {[kind |-> k, same |-> FALSE, queue |-> 0, ranks |-> LeagueRaise, sent |-> FALSE] :
        k \in {"listRaise", "empty", "detailRaise", "absent"}}
    \cup {[kind |-> "found", same |-> m, queue |-> q, ranks |-> lg, sent |-> b] :
            m \in BOOLEAN, q \in MatchQueues, lg \in LeagueResponses, b \in BOOLEAN}

\* bot.py:353-355: the first entry of ranks for the queue of the finished game, or <<>>
RECURSIVE MatchingEntry(_, _)
MatchingEntry(gamemode, entries) ==
    IF entries = <<>> THEN <<>>
    ELSE IF \/ gamemode = "Classe Solo/Duo" /\ Head(entries).queueType = "RANKED_SOLO_5x5"
            \/ gamemode = "Classe Flex" /\ Head(entries).queueType = "RANKED_FLEX_SR"
         THEN <<Head(entries)>>
         ELSE MatchingEntry(gamemode, Tail(entries))

\* bot.py:347-372: the league lookup of send_game_end; the players list with the "lp"
\* cache updated, whether the lookup raised, and the "LP" field of the embed: none
\* (<<>>), or the points with the difference to the cached points (bot.py:361-366), or
\* the points alone when no account is found (bot.py:368)
EndStanding(plist, puuid, gamemode, ranks) ==
    LET ranked == gamemode \in {"Classe Solo/Duo", "Classe Flex"}
        hit == MatchingEntry(gamemode, ranks.entries)
        i == FindAccount(plist, puuid)
    IN IF ranks.kind = "raise" THEN [players |-> plist, raised |-> TRUE, shown |-> <<>>]
       ELSE IF ranks.kind = "error"
       THEN \* the loop walks the keys of the object; entry["queueType"] is evaluated
            \* only when gamemode is a ranked one
            [players |-> plist, raised |-> ranked, shown |-> <<>>]
       ELSE IF hit = <<>> THEN [players |-> plist, raised |-> FALSE, shown |-> <<>>]
       ELSE LET new_lp == hit[1].leaguePoints IN
            IF i = 0
            THEN [players |-> plist, raised |-> FALSE,
                  shown |-> <<[lp |-> new_lp, diff |-> <<>>]>>]
            ELSE LET old_lp == DictGet(plist[i], "lp", new_lp) IN
                 [players |-> [plist EXCEPT ![i] = DictSet(@, "lp", new_lp)],
                  raised |-> FALSE,
                  shown |-> <<[lp |-> new_lp, diff |-> <<new_lp - old_lp>>]>>]

\* The exception that leaves check_games decides what tasks.loop does with it: an OSError
\* (a requests network error) makes the loop call check_games again, any other one (a
\* KeyError or TypeError on an unexpected body, a discord.HTTPException) ends the loop.
\* A call that can raise either kind may or may not be fatal.
EitherKind == BOOLEAN

FatalKind == {TRUE}

\* One pass of the loop bot.py:267-308 over `keys`, from the state `st`
\*   st.ag, st.players : active_games and players so far
\*   st.e              : end notifications delivered so far in this iteration
\*   st.aborted        : an exception left check_games
\*   st.fatal          : whether that exception ends the loop (the possible answers)
\*   st.dropped        : a record was deleted without a delivered end notification
\*   st.awaited        : channel.send was awaited
\*   st.nominal        : every record so far was resolved and its notification delivered
\*   st.calls          : calls of the match list endpoint
\*   st.kinds          : what the match endpoints answered, record after record
\*   st.log            : the end notifications delivered: the session of the record, and
\*                       the match, queue and league answer they were built from, and
\*                       the "LP" field they show
\* calls, kinds and log are kept when the iteration is `logged`.
\* The result is the set of states the endpoints' answers can lead to.
RECURSIVE EndLoop(_, _, _, _, _, _)
EndLoop(keys, puuid, resolutions, room, logged, st) ==
    IF keys = <<>> THEN {st}
    ELSE LET key == Head(keys) IN
         UNION {
            LET at == IF logged
                      THEN [st EXCEPT !.calls = @ + 1, !.kinds = Append(@, r.kind)]
                      ELSE st
            IN
            CASE r.kind \in {"listRaise", "detailRaise"} ->
                    {[at EXCEPT !.aborted = TRUE, !.fatal = EitherKind, !.nominal = FALSE]}
              [] r.kind \in {"empty", "absent"} ->
                    EndLoop(Tail(keys), puuid, resolutions, room, logged,
                            [at EXCEPT !.ag = DelGame(@, key), !.dropped = TRUE,
                                       !.nominal = FALSE])
              [] OTHER ->
                    LET es == EndStanding(at.players, puuid, GamemodeOfInt(r.queue), r.ranks)
                    IN IF es.raised
                       THEN {[at EXCEPT !.aborted = TRUE, !.nominal = FALSE,
                                        !.fatal = IF r.ranks.kind = "error" THEN FatalKind
                                                  ELSE EitherKind]}
                       ELSE IF ~r.sent
                       THEN {[at EXCEPT !.players = es.players, !.aborted = TRUE,
                                        !.fatal = EitherKind,
                                        !.awaited = TRUE, !.nominal = FALSE]}
                       ELSE IF at.e >= room THEN {}
                       ELSE EndLoop(Tail(keys), puuid, resolutions, room, logged,
                                    [at EXCEPT !.players = es.players, !.e = @ + 1,
                                               !.awaited = TRUE, !.ag = DelGame(@, key),
                                               !.log = IF logged
                                                       THEN Append(@, [session |-> key[2],
                                                                       same |-> r.same,
                                                                       queue |-> r.queue,
                                                                       ranks |-> r.ranks,
                                                                       shown |-> es.shown])
                                                       ELSE @])
            : r \in resolutions }

(***************************************************************************)
(* check_games: the loop                                                   *)
(***************************************************************************)
\* progress of the observer through the samples (inactive, active S ranked, active S,
\* inactive and resolved), each step decided by the inputs of the iteration alone
ScenNext(sc, scS, resp, hadNone, nominal) ==
    CASE sc = 3 /\ resp.status = 404 /\ nominal -> <<4, scS>>
      [] sc = 2 /\ resp.status = StatusOk /\ resp.gameId = scS /\ resp.queue = 420 -> <<3, scS>>
      [] sc = 1 /\ resp.status = StatusOk /\ resp.queue = 420 /\ nominal -> <<2, resp.gameId>>
      [] resp.status = 404 /\ hadNone -> <<1, 0>>
      [] OTHER -> <<0, 0>>

\* the body of `for info in players` for one identity (bot.py:232-308), given the
\* Sampler's answer: the set of outcomes the other endpoints' answers can lead to
\*   s, e    : start and end notifications delivered
\*   aborted : an exception left check_games
\*   lost    : a record was created without a delivered start, or deleted without a
\*             delivered end
\* channel.send of send_game_start succeeds or raises, as `deliveries` allows
Iteration(ag, plist, puuid, resp, resolutions, deliveries, roomS, roomE, logged) ==
    IF resp.status = 0
    THEN {[ag |-> ag, players |-> plist, s |-> 0, e |-> 0, aborted |-> TRUE,
           fatal |-> EitherKind, lost |-> FALSE, awaited |-> FALSE, nominal |-> FALSE,
           calls |-> 0, kinds |-> <<>>, log |-> <<>>]}
    ELSE IF resp.status = StatusOk
    THEN LET match_id == ToString(resp.gameId) IN
         IF IsNewGame(ag, puuid, match_id)
         THEN {[ag |-> Append(ag, <<puuid, match_id>>), players |-> plist,
                s |-> IF sent THEN 1 ELSE 0, e |-> 0, aborted |-> ~sent,
                fatal |-> EitherKind, lost |-> ~sent,
                awaited |-> TRUE, nominal |-> sent,
                calls |-> 0, kinds |-> <<>>, log |-> <<>>] :
                  sent \in {b \in deliveries : b => roomS > 0}}
         ELSE {[ag |-> ag, players |-> plist, s |-> 0, e |-> 0, aborted |-> FALSE,
                fatal |-> EitherKind, lost |-> FALSE, awaited |-> FALSE, nominal |-> TRUE,
                calls |-> 0, kinds |-> <<>>, log |-> <<>>]}
    ELSE {[ag |-> st.ag, players |-> st.players, s |-> 0, e |-> st.e,
           aborted |-> st.aborted, fatal |-> st.fatal, lost |-> st.dropped,
           awaited |-> st.awaited, nominal |-> st.nominal,
           calls |-> st.calls, kinds |-> st.kinds, log |-> st.log] :
             st \in EndLoop(KeysOfPlayer(ag, puuid), puuid, resolutions, roomE, logged,
                            [ag |-> ag, players |-> plist, e |-> 0, aborted |-> FALSE,
                             fatal |-> EitherKind, dropped |-> FALSE, awaited |-> FALSE,
                             nominal |-> TRUE, calls |-> 0, kinds |-> <<>>, log |-> <<>>])}

\* on_ready: check_games.start() starts the loop, or raises RuntimeError when the loop
\* is running; on_ready is run when the gateway session is ready, after every reconnect
\* that could not resume
on_ready ==
    /\ pc = 0 \/ yielded
    /\ driver' = "running"
    /\ UNCHANGED <<players, active_games, last_daily_date, pc, yielded, reply, board, stored,
                   watch, starts, ends, clean, tick, scen, scenS, skipped, lpHist, obs, gap, daily>>

\* @tasks.loop(seconds=60): a new run of check_games starts when the loop is alive and
\* no run is in progress
SweepBegin ==
    /\ pc = 0
    /\ driver = "running"
    /\ pc' = 1
    /\ yielded' = FALSE
    /\ skipped' = {}
    /\ UNCHANGED <<players, active_games, last_daily_date, driver, reply, board, stored,
                   watch, starts, ends, clean, tick, scen, scenS, lpHist, obs, gap, daily>>

\* the for loop is exhausted
SweepEnd ==
    /\ pc > Len(players)
    /\ pc' = 0
    /\ yielded' = FALSE
    /\ UNCHANGED <<players, active_games, last_daily_date, driver, reply, board, stored,
                   watch, starts, ends, clean, tick, scen, scenS, skipped, lpHist, obs, gap, daily>>

\* the points shown by the latest end notification of each ranked queue (<<>> when there
\* is none), after the notifications of `log`
RECURSIVE LastEnds(_, _)
LastEnds(last, log) ==
    IF log = <<>> THEN last
    ELSE LET x == Head(log) IN
         LastEnds(IF x.shown # <<>> THEN [last EXCEPT ![x.queue] = <<x.shown[1].lp>>]
                  ELSE last,
                  Tail(log))

\* what an outcome of Iteration changes in the state: the program's variables, and the
\* group of observers that is kept (the counters when `counting`, the record of the
\* iteration otherwise; none when the identity is not `watch`)
Effect(out, seen, counting) ==
    [ag |-> out.ag, players |-> out.players, aborted |-> out.aborted,
     fatal |-> IF out.aborted THEN out.fatal ELSE {FALSE},
     awaited |-> out.awaited,
     s |-> IF seen THEN out.s ELSE 0,
     e |-> IF seen /\ counting THEN out.e ELSE 0,
     lost |-> seen /\ counting /\ out.lost,
     nominal |-> seen /\ counting /\ out.nominal,
     calls |-> out.calls, kinds |-> out.kinds, log |-> out.log]

\* one iteration of `for info in players`, the Sampler answering from `samples`, the
\* match and league endpoints from `resolutions`
\* and the start notification delivered as `deliveries` allows.
\* The observers of `watch` are kept in two groups: the counters (starts, ends, clean,
\* tick, scen, skipped) when `counting`, the record obs of the iteration otherwise.
sweep_iteration(samples, resolutions, deliveries, counting) ==
    /\ pc >= 1
    /\ pc <= Len(players)
    /\ LET puuid == players[pc].puuid
           seen == puuid = watch
       IN \E resp \in samples :
           \E out \in {Effect(o, seen, counting) :
                         o \in Iteration(active_games, players, puuid, resp, resolutions,
                                         deliveries,
                                         IF seen /\ counting THEN MaxNotif - starts ELSE 1,
                                         IF seen /\ counting THEN MaxNotif - ends
                                         ELSE Len(active_games),
                                         seen /\ ~counting)} :
             /\ active_games' = out.ag
             /\ players' = out.players
             /\ pc' = IF out.aborted THEN 0 ELSE pc + 1
             /\ driver' \in {IF f THEN "stopped" ELSE driver : f \in out.fatal}
             /\ yielded' = (out.awaited /\ ~out.aborted)
             /\ skipped' = IF counting /\ resp.status = 0
                           THEN {players[j].puuid : j \in (pc + 1)..Len(players)}
                           ELSE skipped
             /\ IF seen /\ counting
                THEN /\ starts' = starts + out.s
                     /\ ends' = ends + out.e
                     /\ clean' = (clean /\ ~out.lost)
                     /\ tick' = resp
                     /\ LET n == ScenNext(scen, scenS, resp,
                                          GamesOf(active_games, puuid) = {}, out.nominal)
                        IN /\ scen' = n[1]
                           /\ scenS' = n[2]
                ELSE UNCHANGED <<starts, ends, clean, tick, scen, scenS>>
             /\ obs' = IF seen /\ ~counting
                       THEN [status |-> resp.status,
                             sample |-> IF resp.status = StatusOk
                                        THEN ToString(resp.gameId) ELSE "",
                             had |-> GamesOf(active_games, puuid),
                             left |-> GamesOf(out.ag, puuid),
                             s |-> out.s,
                             calls |-> out.calls,
                             kinds |-> out.kinds,
                             log |-> out.log,
                             aborted |-> out.aborted,
                             last |-> LastEnds(obs.last, out.log),
                             before |-> players[pc],
                             after |-> out.players[pc]]
                       ELSE obs
             /\ UNCHANGED <<last_daily_date, reply, board, stored, watch, lpHist, gap, daily>>

\* the endpoints of the sweep model: the match listed is the one of the record, the
\* league endpoint of send_game_end raises or answers an empty list
SweepResolutions ==
    {r \in Resolutions :
        r.kind = "found" => (r.same /\ r.ranks \in {LeagueRaise, LeagueList(<<>>)})}

SweepStep == sweep_iteration(SamplerResponses, SweepResolutions, BOOLEAN, TRUE)

(***************************************************************************)
(* The daily digest                                                        *)
(***************************************************************************)
\* send_daily_summary(channel, title): `players` is a list (bot.py:77), so
\* `players.items()` (bot.py:499) raises AttributeError before anything is sent or
\* written; the new players list and whether the call raised
send_daily_summary(plist) == [players |-> plist, raised |-> TRUE]

\* the !daily command
daily_command ==
    /\ CommandMayRun
    /\ LET d == send_daily_summary(players) IN
       /\ players' = d.players
       /\ reply' = IF d.raised THEN "AttributeError" ELSE "digest sent"
    /\ UNCHANGED <<active_games, last_daily_date, pc, driver, yielded, board, stored, watch,
                   starts, ends, clean, tick, scen, scenS, skipped, lpHist, obs, gap, daily>>

Dates == 1..2

\* what a run of daily_summary_scheduler on the date `today` adds to the observer: its
\* outcome, the outcome of the run before, and the digests delivered per date
RunObserved(today, outcome) ==
    [date |-> today, outcome |-> outcome, prev |-> daily.outcome,
     digests |-> IF outcome = "sent" THEN [daily.digests EXCEPT ![today] = @ + 1]
                 ELSE daily.digests]

\* daily_summary_scheduler with `last_daily_date = today` (bot.py:561) moved out of the
\* try block
daily_summary_scheduler_Unguarded(today, observed) ==
    /\ CommandMayRun
    /\ driver # "idle"
    /\ IF last_daily_date = today
       THEN /\ UNCHANGED <<players, last_daily_date>>
            /\ daily' = IF observed THEN RunObserved(today, "skipped") ELSE daily
       ELSE LET d == send_daily_summary(players) IN
            /\ players' = d.players
            /\ last_daily_date' = today
            /\ daily' = IF observed
                        THEN RunObserved(today, IF d.raised THEN "failed" ELSE "sent")
                        ELSE daily
    /\ UNCHANGED <<active_games, pc, driver, yielded, reply, board, stored, watch,
                   starts, ends, clean, tick, scen, scenS, skipped, lpHist, obs, gap>>

\* daily_summary_scheduler, started by on_ready, run on the date `today`; the exception
\* of the digest pass is caught (bot.py:559-564), so the run returns normally and the
\* loop goes on
daily_summary_scheduler(today, observed) ==
    /\ CommandMayRun
    /\ driver # "idle"
    /\ IF last_daily_date = today
       THEN /\ UNCHANGED <<players, last_daily_date>>
            /\ daily' = IF observed THEN RunObserved(today, "skipped") ELSE daily
       ELSE LET d == send_daily_summary(players) IN
            /\ players' = d.players
            /\ last_daily_date' = IF d.raised THEN last_daily_date ELSE today
            /\ daily' = IF observed
                        THEN RunObserved(today, IF d.raised THEN "failed" ELSE "sent")
                        ELSE daily
    /\ UNCHANGED <<active_games, pc, driver, yielded, reply, board, stored, watch,
                   starts, ends, clean, tick, scen, scenS, skipped, lpHist, obs, gap>>

DailyScheduler == \E today \in Dates : daily_summary_scheduler(today, FALSE)

\* the runs of the scheduler, observed
DailySchedulerObserved == \E today \in Dates : daily_summary_scheduler(today, TRUE)

(***************************************************************************)
(* The leaderboard                                                         *)
(***************************************************************************)
\* the sort key of bot.py:468
SortKey(x) ==
    <<DictGet(rank_order, x.tier, 0), DictGet(division_order, x.rank, 0),
      IF x.tier # "UNRANKED" THEN x.lp ELSE -1>>

\* tuple comparison a < b
KeyLess(a, b) ==
    \/ a[1] < b[1]
    \/ a[1] = b[1] /\ a[2] < b[2]
    \/ a[1] = b[1] /\ a[2] = b[2] /\ a[3] < b[3]

\* sorted(..., reverse=False) is stable: x goes after every element whose key is not
\* greater than its own
RECURSIVE InsertSorted(_, _)
InsertSorted(sorted, x) ==
    IF sorted = <<>> THEN <<x>>
    ELSE IF KeyLess(SortKey(x), SortKey(Head(sorted)))
         THEN <<x>> \o sorted
         ELSE <<Head(sorted)>> \o InsertSorted(Tail(sorted), x)

RECURSIVE SortedPlayers(_)
SortedPlayers(list) ==
    IF list = <<>> THEN <<>>
    ELSE InsertSorted(SortedPlayers(SubSeq(list, 1, Len(list) - 1)), list[Len(list)])

\* bot.py:456-464
LeaderboardPlayers(plist) ==
    [i \in 1..Len(plist) |->
        LET solo == DictGet(plist[i], "solo", [tier |-> "UNRANKED", rank |-> "", lp |-> 0])
        IN [name |-> plist[i].name, tier |-> solo.tier, rank |-> solo.rank, lp |-> solo.lp]]

\* the !leaderboard command
leaderboard ==
    /\ CommandMayRun
    /\ IF players = <<>>
       THEN /\ reply' = "Aucun joueur enregistre."
            /\ board' = board
       ELSE /\ reply' = "Classement des joueurs"
            /\ board' = SortedPlayers(LeaderboardPlayers(players))
    /\ UNCHANGED <<players, active_games, last_daily_date, pc, driver, yielded, stored, watch,
                   starts, ends, clean, tick, scen, scenS, skipped, lpHist, obs, gap, daily>>

(***************************************************************************)
(* persistence.py                                                          *)
(***************************************************************************)
\* save_data(players_list): the upload succeeds, or its exception is caught
save_data(old, players_list, uploaded) == IF uploaded THEN players_list ELSE old

\* add_player(player, players_list) called on the bot's list
add_player(player, uploaded) ==
    /\ CommandMayRun
    /\ IF \E i \in 1..Len(players) : players[i].puuid = player.puuid
       THEN /\ reply' = "False"
            /\ UNCHANGED <<players, stored>>
       ELSE /\ players' = Append(players, player)
            /\ stored' = save_data(stored, players', uploaded)
            /\ reply' = "True"
    /\ UNCHANGED <<active_games, last_daily_date, pc, driver, yielded, board, watch,
                   starts, ends, clean, tick, scen, scenS, skipped, lpHist, obs, gap, daily>>

AddPlayer ==
    \E i \in 1..NumIdentities, uploaded \in BOOLEAN :
        add_player([puuid |-> AllPuuids[i], name |-> PseudoOf(i)], uploaded)

\* update_player(player, players_list) called on the bot's list: the first entry with
\* the puuid of player is replaced and the list is handed to save_data
update_player(player, uploaded) ==
    /\ CommandMayRun
    /\ LET i == FindAccount(players, player.puuid) IN
       IF i # 0
       THEN /\ players' = [players EXCEPT ![i] = player]
            /\ stored' = save_data(stored, players', uploaded)
            /\ reply' = "True"
       ELSE /\ reply' = "False"
            /\ UNCHANGED <<players, stored>>
    /\ UNCHANGED <<active_games, last_daily_date, pc, driver, yielded, board, watch,
                   starts, ends, clean, tick, scen, scenS, skipped, lpHist, obs, gap, daily>>

\* the players update_player is given: any tracked or untracked puuid, a new name
NewPlayer(puuid) == [puuid |-> puuid, name |-> "new"]

UpdatePlayer ==
    \E puuid \in PUUIDS, uploaded \in BOOLEAN : update_player(NewPlayer(puuid), uploaded)

(***************************************************************************)
(* Successive standing refreshes of one account                            *)
(***************************************************************************)
Solo10 == Entry("RANKED_SOLO_5x5", "SILVER", "II", 10, 4, 4)

RefreshResponses ==
    {LeagueList(<<Solo40>>), LeagueList(<<Solo25>>), LeagueList(<<Solo60>>),
     LeagueList(<<Solo10>>), LeagueList(<<Flex10, Solo25>>), LeagueList(<<Solo60, Flex10>>)}

\* the points of the solo entry of a response
SoloPoints(lg) ==
    LET i == CHOOSE i \in 1..Len(lg.entries) : lg.entries[i].queueType = "RANKED_SOLO_5x5"
    IN lg.entries[i].leaguePoints

\* update_lp(pseudo, puuid) for the first account
Refresh ==
    /\ Len(lpHist) < MaxRefresh
    /\ \E lg \in RefreshResponses :
         /\ players' = update_lp(players, players[1].puuid, lg).players
         /\ lpHist' = Append(lpHist, SoloPoints(lg))
    /\ UNCHANGED <<active_games, last_daily_date, pc, driver, yielded, reply, board, stored, watch,
                   starts, ends, clean, tick, scen, scenS, skipped, obs, gap, daily>>

(***************************************************************************)
(* Initial state: the module has just been imported                        *)
(***************************************************************************)
NoTick == [status |-> 0, gameId |-> 0, queue |-> 0]

\* no iteration of the loop has been observed
NoObs ==
    [status |-> -1, sample |-> "", had |-> {}, left |-> {}, s |-> 0, calls |-> 0, kinds |-> <<>>,
     log |-> <<>>, aborted |-> FALSE, last |-> [q \in {420, 440} |-> <<>>],
     before |-> [puuid |-> ""], after |-> [puuid |-> ""]]

\* daily_summary_scheduler has not been observed
NoRun == [date |-> 0, outcome |-> "none", prev |-> "none", digests |-> [d \in Dates |-> 0]]

\* the state in which the players list is plist and nothing else has happened
InitWith(plist) ==
    /\ players = plist
    /\ active_games = <<>>
    /\ last_daily_date = 0
    /\ pc = 0
    /\ driver = "idle"
    /\ yielded = FALSE
    /\ reply = ""
    /\ board = <<>>
    /\ stored = <<>>
    /\ watch \in PUUIDS
    /\ starts = 0
    /\ ends = 0
    /\ clean = TRUE
    /\ tick = NoTick
    /\ scen = 0
    /\ scenS = 0
    /\ skipped = {}
    /\ lpHist = <<>>
    /\ obs = NoObs
    /\ gap = {}
    /\ daily = NoRun

Init == InitWith(<<>>)

\* the process is stopped and started again: the module's globals are initialised anew
\* (bot.py:38, 77, 78), the loops wait for on_ready; what persistence uploaded is kept
RestartKeepingGames ==
    /\ players' = <<>>
    /\ active_games' = active_games
    /\ last_daily_date' = 0
    /\ pc' = 0
    /\ driver' = "idle"
    /\ yielded' = FALSE
    /\ reply' = ""
    /\ board' = <<>>
    /\ gap' = gap \cup GamesOf(active_games, watch)
    /\ obs' = NoObs
    /\ UNCHANGED <<stored, watch, starts, ends, clean, tick, scen, scenS, skipped, lpHist,
                   daily>>

Restart ==
    /\ players' = <<>>
    /\ active_games' = <<>>
    /\ last_daily_date' = 0
    /\ pc' = 0
    /\ driver' = "idle"
    /\ yielded' = FALSE
    /\ reply' = ""
    /\ board' = <<>>
    /\ gap' = gap \cup GamesOf(active_games, watch)
    /\ obs' = NoObs
    /\ UNCHANGED <<stored, watch, starts, ends, clean, tick, scen, scenS, skipped, lpHist,
                   daily>>

Next ==
    \/ on_ready
    \/ Register
    \/ SweepBegin
    \/ SweepStep
    \/ SweepEnd
    \/ daily_command
    \/ DailyScheduler

Spec == Init /\ [][Next]_vars

\* the registry: every register input and answer, and persistence.add_player
NextReg ==
    \/ RegisterAny
    \/ AddPlayer

SpecReg == Init /\ [][NextReg]_vars

\* the accounts of all identities, each registered while the league endpoint answered
\* with the solo entry Solo40
RegisteredList ==
    [i \in 1..NumIdentities |->
        update_lp(<<[puuid |-> AllPuuids[i], name |-> PseudoOf(i)]>>, AllPuuids[i],
                  LeagueList(<<Solo40>>)).players[1]]

InitRun == InitWith(RegisteredList)

\* the answers of the match and league endpoints in the recorded sweeps
RunResolutions ==
    {r \in Resolutions :
        r.kind = "found" =>
            /\ r.queue \in {420, 400}
            /\ r.ranks \in {LeagueRaise, LeagueList(<<Flex10, Solo25>>)}}

\* the sweeps over the registered accounts, each iteration of `watch` recorded in obs
SweepStepLogged == sweep_iteration(SamplerResponses, RunResolutions, BOOLEAN, FALSE)

NextRun ==
    \/ on_ready
    \/ SweepBegin
    \/ SweepStepLogged
    \/ SweepEnd

SpecRun == InitRun /\ [][NextRun]_vars

\* the answers of the match and league endpoints in the sweeps around a restart: no
\* match listed, or the match of the session found; every notification is delivered
RestartResolutions ==
    {r \in Resolutions :
        \/ r.kind = "empty"
        \/ /\ r.kind = "found"
           /\ r.same
           /\ r.queue = 420
           /\ r.ranks = LeagueList(<<>>)
           /\ r.sent}

SweepStepRestart == sweep_iteration(SamplerResponses, RestartResolutions, {TRUE}, FALSE)

\* registrations, sweeps and process restarts
NextRestart ==
    \/ on_ready
    \/ Register
    \/ SweepBegin
    \/ SweepStepRestart
    \/ SweepEnd
    \/ Restart

SpecRestart == Init /\ [][NextRestart]_vars

\* One session of a game, not finished yet: the Sampler answers with session 1, fails
\* (an exception, status 0) or answers an error status (429)
SessionSamples ==
    {r \in SamplerResponses : r.status \in {0, 429} \/ (r.status = StatusOk /\ r.gameId = 1)}

\* the match endpoints while the session lasts: its match is not listed, the latest match
\* is an earlier one
SessionResolutions ==
    {r \in Resolutions :
        r.kind = "found" => (~r.same /\ r.ranks \in {LeagueRaise, LeagueList(<<>>)})}

SweepStepSession == sweep_iteration(SessionSamples, SessionResolutions, BOOLEAN, TRUE)

\* the sweeps over the registered accounts during that session
NextSession ==
    \/ on_ready
    \/ SweepBegin
    \/ SweepStepSession
    \/ SweepEnd

SpecSession == InitRun /\ [][NextSession]_vars

\* the answers of the endpoints when games of the two ranked queues end: the match of the
\* session is found, the league endpoint answers with both queues, the notification is
\* delivered
EndResolutions ==
    {r \in Resolutions :
        /\ r.kind = "found"
        /\ r.same
        /\ r.queue \in {420, 440}
        /\ r.ranks = LeagueList(<<Flex10, Solo25>>)
        /\ r.sent}

SweepStepEnd == sweep_iteration(SamplerResponses, EndResolutions, {TRUE}, FALSE)

\* the sweeps over the registered accounts, games of both ranked queues ending
NextEnd ==
    \/ on_ready
    \/ SweepBegin
    \/ SweepStepEnd
    \/ SweepEnd

SpecEnd == InitRun /\ [][NextEnd]_vars

\* registrations, the !daily command and the daily scheduler
NextDaily ==
    \/ on_ready
    \/ Register
    \/ daily_command
    \/ DailySchedulerObserved

SpecDaily == Init /\ [][NextDaily]_vars

\* the lists update_player is called on: any accounts, a puuid possibly more than once
UpdLists ==
    UNION {[1..n -> {[puuid |-> puuid, name |-> nm] : puuid \in PUUIDS, nm \in {"x", "y"}}] :
              n \in 0..MaxList}

InitUpd == \E plist \in UpdLists : InitWith(plist)

SpecUpd == InitUpd /\ [][UpdatePlayer]_vars

\* one account, appended by register (bot.py:215) and about to be refreshed (bot.py:216)
InitLP == InitWith(<<[puuid |-> AllPuuids[1], name |-> PseudoOf(1)]>>)

SpecLP == InitLP /\ [][Refresh]_vars

\* the lists of accounts registered while the league endpoint answered from BoardLeague
BoardLeague ==
    {LeagueList(<<>>),
     LeagueList(<<Entry("RANKED_SOLO_5x5", "GOLD", "II", 40, 5, 3)>>),
     LeagueList(<<Entry("RANKED_SOLO_5x5", "GOLD", "II", 10, 5, 3)>>),
     LeagueList(<<Entry("RANKED_SOLO_5x5", "SILVER", "I", 99, 5, 3)>>),
     LeagueList(<<Entry("RANKED_SOLO_5x5", "GOLD", "IV", 40, 5, 3)>>)}

BoardAccount(i, lg) ==
    update_lp(<<[puuid |-> AllPuuids[i], name |-> PseudoOf(i)]>>, AllPuuids[i], lg).players[1]

BoardLists ==
    UNION {{[i \in 1..n |-> BoardAccount(i, f[i])] : f \in [1..n -> BoardLeague]} :
              n \in 1..MaxBoard}

InitLB == \E plist \in BoardLists : InitWith(plist)

SpecLB == InitLB /\ [][leaderboard]_vars

(***************************************************************************)
(* Properties                                                              *)
(***************************************************************************)
\* the Sampler's latest answer for `watch` was taken as "not in game" (any status but
\* 200) and active_games holds no entry for it
Terminal ==
    /\ tick.status # 0
    /\ tick.status # StatusOk
    /\ GamesOf(active_games, watch) = {}

C2_FourSamples ==
    [][/\ scen' = 1 => (starts' = starts /\ ends' = ends)
       /\ (scen = 1 /\ scen' = 2) => (starts' = starts + 1 /\ ends' = ends)
       /\ (scen = 2 /\ scen' = 3) => (starts' = starts /\ ends' = ends)
       /\ (scen = 3 /\ scen' = 4) =>
             /\ starts' = starts
             /\ ends' = ends + 1
             /\ GamesOf(active_games', watch) = {}]_vars

C2_Witness == scen = 4 /\ starts = 1 /\ ends = 1

\* C3: after the Sampler reported an active game whose queue is not 420 or 440, no
\* entry of active_games stands for that game.
C3_IgnoredQueue ==
    (tick.status = StatusOk /\ tick.queue \notin {420, 440})
        => <<watch, ToString(tick.gameId)>> \notin Keys(active_games)

\* C4: a Sampler failure for one identity leaves no other identity of the list
\* unprobed in that sweep.
C4_FailureIsolation == skipped = {}

NoTwoShare(plist) ==
    \A i, j \in 1..Len(plist) : i # j => plist[i].puuid # plist[j].puuid

Tracked(plist, puuid) == \E i \in 1..Len(plist) : plist[i].puuid = puuid

\* C5: no two entries of players share a puuid, and a register command whose Name#Tag
\* resolves to a tracked puuid answers "deja enregistre" and leaves players as it was;
\* add_player of a tracked puuid answers False and leaves players and the store as they were.
C5_DuplicateRegistration ==
    /\ []NoTwoShare(players)
    /\ [][\A pseudo \in GoodPseudos :
            (/\ Tracked(players, AccountDirectory(Split(pseudo)[1], Split(pseudo)[2]))
             /\ \E lg \in LeagueResponses : register(pseudo, "ok", lg))
            => (reply' = "deja enregistre" /\ players' = players)]_vars
    /\ [][\A i \in 1..NumIdentities, uploaded \in BOOLEAN :
            (/\ Tracked(players, AllPuuids[i])
             /\ add_player([puuid |-> AllPuuids[i], name |-> PseudoOf(i)], uploaded))
            => (reply' = "False" /\ players' = players /\ stored' = stored)]_vars

C5_Witness == reply = "deja enregistre" /\ Len(players) = NumIdentities

\* C6: after the refreshes of lpHist, the delta of the solo queue is the latest point
\* value minus the one of the first (baseline) refresh.
C6_RollingDelta ==
    Len(lpHist) >= 1 => players[1].solo.daily_lp = lpHist[Len(lpHist)] - lpHist[1]

Standings(acc) == {acc[k] : k \in DOMAIN acc \cap {"solo", "flex"}}

DeltasZero(plist) ==
    \A i \in 1..Len(plist) : \A st \in Standings(plist[i]) : st.daily_lp = 0

WinLoss(plist) ==
    [i \in 1..Len(plist) |->
        [k \in DOMAIN plist[i] \cap {"solo", "flex"} |->
            <<DictGet(plist[i][k], "wins", 0), DictGet(plist[i][k], "losses", 0)>>]]

\* C7: a digest pass leaves every delta at 0 and every win/loss counter as it was.
C7_DigestReset ==
    [][daily_command => (DeltasZero(players') /\ WinLoss(players') = WinLoss(players))]_vars

\* skill of a tier: the higher the number, the higher the tier; unranked is lowest
TierSkill(t) == IF t = "UNRANKED" THEN 0 ELSE rank_order[t]

\* a has to be listed before b
ListedBefore(a, b) ==
    \/ TierSkill(a.tier) > TierSkill(b.tier)
    \/ /\ a.tier = b.tier
       /\ division_order[a.rank] < division_order[b.rank]
    \/ /\ a.tier = b.tier
       /\ a.rank = b.rank
       /\ a.tier # "UNRANKED"
       /\ a.lp > b.lp

\* C8: the leaderboard lists a higher tier before a lower one, within a tier a higher
\* division first, within a division more points first, and unranked entries last.
C8_LeaderboardOrder ==
    \A i, j \in 1..Len(board) : i < j => ~ListedBefore(board[j], board[i])

\* C9: after the Sampler reported an active game S2 for an identity, no record of
\* another game S1 of that identity is left in active_games.
C9_BackToBack ==
    tick.status = StatusOk => GamesOf(active_games, watch) \subseteq {ToString(tick.gameId)}

\* C10: active_games holds at most one record for each identity.
C10_OneRecord == \A p \in PUUIDS : Cardinality(GamesOf(active_games, p)) <= 1

\* C11: an iteration in which the Sampler failed (exception, bad body) or answered an
\* error status (429) leaves the records of the identity as they were, delivers no
\* notification and calls no match endpoint.
C11_TransientFailure ==
    obs.status \in {0, 429} =>
        /\ obs.left = obs.had
        /\ obs.s = 0
        /\ obs.log = <<>>
        /\ obs.calls = 0

\* C12: an iteration in which the identity is sampled inactive and every resolution
\* fails (empty match list, unusable match detail, identity absent) deletes its
\* records, delivers no end notification, leaves its account as it was and goes on
\* with the sweep.
C12_ResolutionFailure ==
    (/\ obs.status = 404
     /\ obs.kinds # <<>>
     /\ \A i \in DOMAIN obs.kinds : obs.kinds[i] \in {"empty", "detailRaise", "absent"})
        => /\ obs.left = {}
           /\ obs.log = <<>>
           /\ obs.after = obs.before
           /\ ~obs.aborted

\* C13: every end notification delivered for a record is built from the match of the
\* session of that record.
C13_OutcomeOfSession == \A i \in DOMAIN obs.log : obs.log[i].same

\* C14: the loop that runs check_games is never stopped by a failure.
C14_DriverSurvives == driver # "stopped"

\* C15, as stated: the process starts with active_games empty, and after a restart no
\* end notification is delivered for a session that was recorded before the restart.
C15_NoEndAfterRestart ==
    /\ driver = "idle" => active_games = <<>>
    /\ \A i \in DOMAIN obs.log : obs.log[i].session \notin gap

\* C15, amended: the process starts with active_games empty; an end notification is
\* delivered only for a session recorded when the identity was sampled inactive, and a
\* record of a session is created only in an iteration whose Sampler answer reports
\* that session as active. So a session recorded before a restart gets an end
\* notification after it only through a new active sample of that session.
C15_EndOnlyIfSampledAgain ==
    /\ [](driver = "idle" => active_games = <<>>)
    /\ [](\A i \in DOMAIN obs.log : obs.log[i].session \in obs.had)
    /\ [][\A g \in GameIds :
            (/\ <<watch, ToString(g)>> \notin Keys(active_games)
             /\ <<watch, ToString(g)>> \in Keys(active_games'))
            => (/\ obs'.status = StatusOk
                /\ obs'.sample = ToString(g)
                /\ obs'.s = 1 \/ obs'.aborted)]_vars

C15_Witness == \E i \in DOMAIN obs.log : obs.log[i].session \in gap

\* C16: the identities tracked before a restart are tracked after it, with their
\* standings.
C16_DurableRegistry == [][Restart => players' = players]_vars

\* register input that is malformed (no "#", more than one "#") or that the account
\* endpoint does not resolve
Unresolvable(pseudo) ==
    \/ "#" \notin Range(pseudo)
    \/ Len(Split(pseudo)) # 2
    \/ AccountDirectory(Split(pseudo)[1], Split(pseudo)[2]) = ""

\* C17: a register command with malformed or unresolvable input answers with a message
\* to the user and changes neither players nor active_games.
C17_MalformedRegistration ==
    [][\A pseudo \in Pseudos, lg \in LeagueResponses :
          (Unresolvable(pseudo) /\ register(pseudo, "ok", lg))
          => (/\ reply' \in {"Format invalide : Nom#TAG", "Riot ID invalide."}
              /\ players' = players
              /\ active_games' = active_games)]_vars

\* the standing of an account for the queue of a match
QueueStanding(acc, queue) == IF queue = 420 THEN acc.solo ELSE acc.flex

\* C18: after an end notification of a ranked match, the points of the identity for
\* that queue are the ones the league endpoint returned and its delta has grown by the
\* difference.
C18_RefreshAfterEnd ==
    \A i \in DOMAIN obs.log :
        LET x == obs.log[i]
            hit == MatchingEntry(GamemodeOfInt(x.queue), x.ranks.entries)
        IN hit # <<>> =>
             /\ QueueStanding(obs.after, x.queue).lp = hit[1].leaguePoints
             /\ QueueStanding(obs.after, x.queue).daily_lp =
                    QueueStanding(obs.before, x.queue).daily_lp
                    + hit[1].leaguePoints - QueueStanding(obs.before, x.queue).lp

C20_ResolverAllowList == \A i \in DOMAIN obs.log : obs.log[i].queue \in {420, 440}

\* the response holds an entry of this queue type
HasEntry(lg, queueType) ==
    \E i \in DOMAIN lg.entries : lg.entries[i].queueType = queueType

\* a standing with tier UNRANKED, 0 points and a rolling delta of 0
Unranked(st) == st.tier = "UNRANKED" /\ st.lp = 0 /\ st.daily_lp = 0

\* C21: when register has appended an account and update_lp has read the league
\* endpoint's answer (a list, or an error object), the account has both the "solo" and
\* the "flex" standing, and the standing of a queue that the answer does not hold is
\* UNRANKED, 0 points, delta 0; an account registered with the success message has both.
C21_DefaultStandings ==
    [][\A pseudo \in Pseudos, net \in {"raise", "ok"}, lg \in LeagueResponses :
          (register(pseudo, net, lg) /\ Len(players') > Len(players)) =>
              LET acc == players'[Len(players')] IN
              /\ lg.kind # "raise" =>
                    /\ {"solo", "flex"} \subseteq DOMAIN acc
                    /\ ~HasEntry(lg, "RANKED_SOLO_5x5") => Unranked(acc.solo)
                    /\ ~HasEntry(lg, "RANKED_FLEX_SR") => Unranked(acc.flex)
              /\ reply' = "enregistre avec succes" => {"solo", "flex"} \subseteq DOMAIN acc
      ]_vars

\* an account registered with a solo entry only: its flex standing is the default
C21_Witness ==
    /\ reply = "enregistre avec succes"
    /\ \E i \in DOMAIN players :
          /\ {"solo", "flex"} \subseteq DOMAIN players[i]
          /\ players[i].solo.tier = "GOLD"
          /\ Unranked(players[i].flex)

\* the Sampler's answer recorded in o is an active session that active_games already
\* holds for the identity, or "not in game" (404) while it holds none
NoChangeSample(o) ==
    \/ o.status = StatusOk /\ o.sample \in o.had
    \/ o.status = 404 /\ o.had = {}

\* C22: an iteration of the loop for `watch` whose sample is the recorded session, or
\* "not in game" without a record, sends no notification, leaves active_games and the
\* players list as they were, calls no match endpoint and awaits no channel.send.
C22_NoChangeTick ==
    [][(/\ pc \in 1..Len(players)
        /\ players[pc].puuid = watch
        /\ pc' # pc
        /\ NoChangeSample(obs'))
       => /\ active_games' = active_games
          /\ players' = players
          /\ obs'.s = 0
          /\ obs'.log = <<>>
          /\ obs'.calls = 0
          /\ ~obs'.aborted
          /\ yielded' = FALSE
      ]_vars

\* the latest sample of `watch` was the session it already had a record of
C22_Witness ==
    /\ obs.status = StatusOk
    /\ obs.sample \in obs.had
    /\ obs.left = obs.had
    /\ obs.s = 0

\* C23: an iteration of the loop for `watch` delivers at most one notification, start
\* or end.
C23_OneNotification == obs.s + Len(obs.log) <= 1

\* C24: while one session of `watch` lasts, whatever the Sampler answers (the session, an
\* exception or an error status), at most one start notification is delivered for it.
C24_OneShotStart == starts <= 1

\* the number of entries of the list with this puuid
Entries(plist, puuid) == Cardinality({i \in DOMAIN plist : plist[i].puuid = puuid})

\* C25: with register commands running between the iterations of a sweep (at its awaits)
\* and between sweeps, the players list never holds two entries of one puuid; a register
\* command that resolves its Name#Tag leaves exactly one entry of that puuid, keeps the
\* entries before it in place and does not move the sweep; and the entry an iteration of
\* the sweep handles is of a puuid that no earlier iteration of that sweep has handled.
C25_ConcurrentRegistration ==
    /\ [](\A puuid \in PUUIDS : Entries(players, puuid) <= 1)
    /\ [][\A pseudo \in GoodPseudos :
            (/\ players' # players \/ reply' # reply
             /\ register(pseudo, "ok", LeagueList(<<Solo40>>))) =>
                /\ Entries(players', AccountDirectory(Split(pseudo)[1], Split(pseudo)[2])) = 1
                /\ \A i \in DOMAIN players : players'[i] = players[i]
                /\ pc' = pc]_vars
    /\ [][(pc \in 1..Len(players) /\ pc' # pc) =>
            /\ \A j \in 1..(pc - 1) : players[j].puuid # players[pc].puuid
            /\ \A i \in DOMAIN players : players'[i].puuid = players[i].puuid]_vars

\* a sweep is suspended at an await and a register command for a tracked puuid has been
\* answered
C25_Witness ==
    /\ pc >= 1
    /\ yielded
    /\ reply = "deja enregistre"
    /\ \A puuid \in PUUIDS : Entries(players, puuid) = 1

\* C26: the difference shown by an end notification of `watch` for a ranked queue is the
\* points it shows minus the points shown by the previous end notification of `watch`
\* for the same queue, and 0 when there has been none.
C26_PointChange ==
    [][(pc \in 1..Len(players) /\ players[pc].puuid = watch /\ pc' # pc) =>
          \A i \in DOMAIN obs'.log :
              LET x == obs'.log[i]
                  base == LastEnds(obs.last, SubSeq(obs'.log, 1, i - 1))
              IN x.shown # <<>> =>
                    x.shown[1].diff =
                        << IF base[x.queue] = <<>> THEN 0
                           ELSE x.shown[1].lp - base[x.queue][1] >>
      ]_vars

\* C27: at every moment the end notifications delivered for `watch` are at most as many
\* as the start notifications delivered for it.
C27_NoEndWithoutStart == ends <= starts

=============================================================================
